---- MODULE Spec2Model ----
(***************************************************************************)
(* Chunked, unbounded Conway's Game of Life: the Universe (a sparse map of *)
(* chunks), the Chunk double buffer and the coordinate mapper of           *)
(* src/src/main.rs and src/src/utils.rs.                                   *)
(*                                                                         *)
(* A grid [[bool; 50]; 50] is represented by the set of its true           *)
(* positions <<x, y>> (first index x, second index y, as in                *)
(* current_gen[x][y]).  World coordinates are the integer-valued f32       *)
(* positions; chunk coordinates are i32 pairs.                             *)
(***************************************************************************)
EXTENDS Integers, FiniteSets, Sequences, TLC

\* Edge of a chunk grid.  The source writes the literal 50 (and 49 for the
\* last index) wherever the edge is used; every such literal is N (and N - 1)
\* here, and the model is explored at a reduced edge.
N == 4

Cells == (0 .. N - 1) \X (0 .. N - 1)

\* [[false; 50]; 50]
EmptyGrid == {}

(***************************************************************************)
(* Coordinate mapper                                                       *)
(***************************************************************************)

\* The cast `as i32` to a whole number: the truncation toward zero, without
\* math::round::floor before it
floor_trunc(a, b) == IF a >= 0 THEN a \div b ELSE -((-a) \div b)

\* math::round::floor(a / b, 0) for integer-valued a and b > 0
floor(a, b) == IF a >= 0 THEN a \div b ELSE -(((-a) - 1) \div b) - 1

\* Rust's % on f32: the remainder takes the sign of the dividend
rem(a, b) == IF a >= 0 THEN a % b ELSE -((-a) % b)

\* i32::MAX and i32::MIN, the values at which `as i32` saturates
I32_MAX == 2147483647

I32_MIN == -I32_MAX - 1

\* to_chunk_pos with the literal of the last index (49) for the edge
to_chunk_pos_short(p) == <<floor(p[1], N - 1), floor(p[2], N - 1)>>

to_chunk_pos(p) == <<floor(p[1], N), floor(p[2], N)>>

\* floor(c * 50.0, 0) as i32 for an i32 c: the product is exact in f64, and
\* the cast saturates when it lies outside i32 (the comparison is made on c,
\* so that no intermediate value leaves the 32 bits)
mul_as_i32(c) ==
    IF c > I32_MAX \div N THEN I32_MAX
    ELSE IF c < -(I32_MAX \div N) THEN I32_MIN
    ELSE floor(c * N, 1)

from_chunk_pos(p) == <<mul_as_i32(p[1]), mul_as_i32(p[2])>>

\* local_pos without the positive modulo: (x % 50.0) as usize, where the cast
\* of a negative float saturates to 0
local_pos_no_wrap(p) ==
    <<IF rem(p[1], N) < 0 THEN 0 ELSE rem(p[1], N),
      IF rem(p[2], N) < 0 THEN 0 ELSE rem(p[2], N)>>

\* ((50.0 + (x % 50.0)) % 50.0) as usize, for both coordinates
local_pos(p) == <<rem(N + rem(p[1], N), N), rem(N + rem(p[2], N), N)>>

(***************************************************************************)
(* Chunk                                                                   *)
(***************************************************************************)

\* Chunk::new.  mesh is the grid the chunk's mesh asset was last built from;
\* Mesh::new(TriangleList) is an empty mesh.
Chunk_new(pos) ==
    [pos |-> pos,
     last_gen |-> EmptyGrid, last_gen_alive |-> 0,
     current_gen |-> EmptyGrid, current_gen_alive |-> 0,
     mesh |-> EmptyGrid]

\* prepare_tick that merges current_gen into last_gen instead of replacing it
prepare_tick_merge(self) ==
    [self EXCEPT !.last_gen = self.last_gen \cup self.current_gen,
                 !.last_gen_alive = self.current_gen_alive,
                 !.current_gen = EmptyGrid,
                 !.current_gen_alive = 0]

\* prepare_tick that forgets to reset the counter of the new generation
prepare_tick_keep_count(self) ==
    [self EXCEPT !.last_gen = self.current_gen,
                 !.last_gen_alive = self.current_gen_alive,
                 !.current_gen = EmptyGrid]

prepare_tick(self) ==
    [self EXCEPT !.last_gen = self.current_gen,
                 !.last_gen_alive = self.current_gen_alive,
                 !.current_gen = EmptyGrid,
                 !.current_gen_alive = 0]

\* The match of get_neighbor_status with the four edge arms written before
\* the four corner arms
neighbor_index_edges_first(pos) ==
    LET x == pos[1]
        y == pos[2]
    IN  IF x = -1 THEN [src |-> 0, at |-> <<N - 1, y>>]
        ELSE IF y = N THEN [src |-> 2, at |-> <<x, 0>>]
        ELSE IF x = N THEN [src |-> 4, at |-> <<0, y>>]
        ELSE IF y = -1 THEN [src |-> 6, at |-> <<x, N - 1>>]
        ELSE IF x = -1 /\ y = N THEN [src |-> 1, at |-> <<N - 1, 0>>]
        ELSE IF x = N /\ y = N THEN [src |-> 3, at |-> <<0, 0>>]
        ELSE IF x = N /\ y = -1 THEN [src |-> 5, at |-> <<0, N - 1>>]
        ELSE IF x = -1 /\ y = -1 THEN [src |-> 7, at |-> <<N - 1, N - 1>>]
        ELSE [src |-> 8, at |-> <<x, y>>]

\* The array an arm of get_neighbor_status reads and the two indices it
\* reads it at, arm by arm and in the source's order.  src is the index into
\* chunk_neighbors_state (0..7 as in the source), or 8 for self.last_gen.
neighbor_index(pos) ==
    LET x == pos[1]
        y == pos[2]
    IN  IF x = -1 /\ y = N THEN [src |-> 1, at |-> <<N - 1, 0>>]
        ELSE IF x = N /\ y = N THEN [src |-> 3, at |-> <<0, 0>>]
        ELSE IF x = N /\ y = -1 THEN [src |-> 5, at |-> <<0, N - 1>>]
        ELSE IF x = -1 /\ y = -1 THEN [src |-> 7, at |-> <<N - 1, N - 1>>]
        ELSE IF x = -1 THEN [src |-> 0, at |-> <<N - 1, y>>]
        ELSE IF y = N THEN [src |-> 2, at |-> <<x, 0>>]
        ELSE IF x = N THEN [src |-> 4, at |-> <<0, y>>]
        ELSE IF y = -1 THEN [src |-> 6, at |-> <<x, N - 1>>]
        ELSE [src |-> 8, at |-> <<x, y>>]

\* The value the matching arm reads
get_neighbor_status(self, chunk_neighbors_state, pos) ==
    LET r == neighbor_index(pos)
    IN  IF r.src = 8 THEN r.at \in self.last_gen
        ELSE r.at \in chunk_neighbors_state[r.src]

\* `b as i32`
as_i32(b) == IF b THEN 1 ELSE 0

\* The eight positions get_alive_neighbors asks for, in the source's order
neighbor_queries(pos) ==
    LET x == pos[1]
        y == pos[2]
    IN  [i \in 0 .. 7 |->
            CASE i = 0 -> <<x - 1, y>>
              [] i = 1 -> <<x - 1, y + 1>>
              [] i = 2 -> <<x, y + 1>>
              [] i = 3 -> <<x + 1, y + 1>>
              [] i = 4 -> <<x + 1, y>>
              [] i = 5 -> <<x + 1, y - 1>>
              [] i = 6 -> <<x, y - 1>>
              [] i = 7 -> <<x - 1, y - 1>>]

get_alive_neighbors(self, cns, pos) ==
    LET q == neighbor_queries(pos)
    IN    as_i32(get_neighbor_status(self, cns, q[0]))
        + as_i32(get_neighbor_status(self, cns, q[1]))
        + as_i32(get_neighbor_status(self, cns, q[2]))
        + as_i32(get_neighbor_status(self, cns, q[3]))
        + as_i32(get_neighbor_status(self, cns, q[4]))
        + as_i32(get_neighbor_status(self, cns, q[5]))
        + as_i32(get_neighbor_status(self, cns, q[6]))
        + as_i32(get_neighbor_status(self, cns, q[7]))

\* The match on alive_neighbors with the guards of its arms dropped
now_alive_unguarded(alive, alive_neighbors) ==
    IF alive_neighbors \in {2, 3} THEN TRUE ELSE FALSE

\* The rule with survival on exactly two neighbours only
now_alive_s2(alive, alive_neighbors) ==
    IF alive_neighbors = 2 /\ alive THEN TRUE
    ELSE IF alive_neighbors = 3 /\ ~alive THEN TRUE
    ELSE FALSE

\* The match on alive_neighbors in Chunk::tick
now_alive(alive, alive_neighbors) ==
    IF alive_neighbors \in {2, 3} /\ alive THEN TRUE
    ELSE IF alive_neighbors = 3 /\ ~alive THEN TRUE
    ELSE FALSE

\* Chunk::tick: every cell of current_gen is assigned, and the counter is
\* incremented once per cell that is now alive.
Chunk_tick(self, chunk_neighbors_state) ==
    LET born == {c \in Cells :
                    now_alive(c \in self.last_gen,
                              get_alive_neighbors(self, chunk_neighbors_state, c))}
    IN  [self EXCEPT !.current_gen = born,
                     !.current_gen_alive = self.current_gen_alive + Cardinality(born)]

recalculate_mesh(self) == [self EXCEPT !.mesh = self.current_gen]

\* changed() comparing the two counters instead of the two grids
changed_by_count(self) == self.current_gen_alive # self.last_gen_alive

changed(self) == self.current_gen # self.last_gen

(***************************************************************************)
(* Universe: chunks is the HashMap<(i32, i32), Chunk>, a function from the *)
(* set of its keys.                                                        *)
(***************************************************************************)

\* HashMap::insert of a freshly built chunk (an existing entry is replaced)
spawn_chunk(chunks, chunk_pos) ==
    [q \in DOMAIN chunks \cup {chunk_pos} |->
        IF q = chunk_pos THEN recalculate_mesh(Chunk_new(chunk_pos)) ELSE chunks[q]]

\* get_chunk without the contains_key test
get_chunk_respawn(chunks, chunk_pos) == spawn_chunk(chunks, chunk_pos)

get_chunk(chunks, chunk_pos) ==
    IF chunk_pos \notin DOMAIN chunks THEN spawn_chunk(chunks, chunk_pos) ELSE chunks

set_cell_state(chunks, world_pos, state) ==
    LET chunk_pos == to_chunk_pos(world_pos)
        spawned == IF chunk_pos \notin DOMAIN chunks
                   THEN spawn_chunk(chunks, chunk_pos) ELSE chunks
        local == local_pos(world_pos)
    IN  [spawned EXCEPT ![chunk_pos].current_gen =
            IF state THEN @ \cup {local} ELSE @ \ {local}]

\* get_cell_state written with get_chunk, which creates the chunk it misses
get_cell_state_creating(chunks, world_pos) ==
    LET chunk_pos == to_chunk_pos(world_pos)
        got == get_chunk(chunks, chunk_pos)
    IN  [chunks |-> got,
         ret |-> local_pos(world_pos) \in got[chunk_pos].current_gen]

\* get_cell_state takes &mut self: the map after the call, and the result
get_cell_state(chunks, world_pos) ==
    LET chunk_pos == to_chunk_pos(world_pos)
    IN  [chunks |-> chunks,
         ret |-> IF chunk_pos \in DOMAIN chunks
                 THEN local_pos(world_pos) \in chunks[chunk_pos].current_gen
                 ELSE FALSE]

\* The eight positions with north and south exchanged (y - 1 taken for the
\* row above)
neighbor_pos_flipped(p) ==
    [i \in 0 .. 7 |->
        CASE i = 0 -> <<p[1] - 1, p[2]>>
          [] i = 1 -> <<p[1] - 1, p[2] - 1>>
          [] i = 2 -> <<p[1], p[2] - 1>>
          [] i = 3 -> <<p[1] + 1, p[2] - 1>>
          [] i = 4 -> <<p[1] + 1, p[2]>>
          [] i = 5 -> <<p[1] + 1, p[2] + 1>>
          [] i = 6 -> <<p[1], p[2] + 1>>
          [] i = 7 -> <<p[1] - 1, p[2] + 1>>]

\* The eight positions pushed for a chunk at p, in the order W, NW, N, NE, E,
\* SE, S, SW that Universe::tick also uses for the neighbour array
neighbor_pos(p) ==
    [i \in 0 .. 7 |->
        CASE i = 0 -> <<p[1] - 1, p[2]>>
          [] i = 1 -> <<p[1] - 1, p[2] + 1>>
          [] i = 2 -> <<p[1], p[2] + 1>>
          [] i = 3 -> <<p[1] + 1, p[2] + 1>>
          [] i = 4 -> <<p[1] + 1, p[2]>>
          [] i = 5 -> <<p[1] + 1, p[2] - 1>>
          [] i = 6 -> <<p[1], p[2] - 1>>
          [] i = 7 -> <<p[1] - 1, p[2] - 1>>]

\* needed_chunks, as a set: get_chunk is idempotent and order-insensitive
needed_chunks(chunks) ==
    {neighbor_pos(p)[i] : p \in {q \in DOMAIN chunks : chunks[q].last_gen_alive > 0},
                          i \in 0 .. 7}

\* chunk_data.get(..).unwrap_or(&[[false; 50]; 50]) for the eight neighbours
neighbor_grids(chunk_data, p) ==
    [i \in 0 .. 7 |->
        IF neighbor_pos(p)[i] \in DOMAIN chunk_data
        THEN chunk_data[neighbor_pos(p)[i]] ELSE EmptyGrid]

\* for pos in needed_chunks { self.get_chunk(commands, meshes, pos); }
RECURSIVE spawn_needed(_, _)
spawn_needed(chunks, needed) ==
    IF needed = {} THEN chunks
    ELSE LET pos == CHOOSE q \in needed : TRUE
         IN  spawn_needed(get_chunk(chunks, pos), needed \ {pos})

Universe_tick(chunks) ==
    LET prepared == [p \in DOMAIN chunks |-> prepare_tick(chunks[p])]
        grown == spawn_needed(prepared, needed_chunks(prepared))
        chunk_data == [p \in DOMAIN grown |-> grown[p].last_gen]
        ticked == [p \in DOMAIN grown |->
                    Chunk_tick(grown[p], neighbor_grids(chunk_data, p))]
    IN  [p \in DOMAIN ticked |->
            IF changed(ticked[p]) THEN recalculate_mesh(ticked[p]) ELSE ticked[p]]

(***************************************************************************)
(* Reference: one generation of B3/S23 on the unsplit plane, on the set of *)
(* live world cells.                                                       *)
(***************************************************************************)

Around(c) ==
    {<<c[1] + dx, c[2] + dy>> : dx \in -1 .. 1, dy \in -1 .. 1} \ {c}

RefStep(live) ==
    {c \in live \cup UNION {Around(d) : d \in live} :
        LET n == Cardinality(Around(c) \cap live)
        IN  IF c \in live THEN n \in {2, 3} ELSE n = 3}

(***************************************************************************)
(* State                                                                   *)
(***************************************************************************)

VARIABLES
    chunks,     \* Universe.chunks
    paused,     \* GlobalState.paused
    cell_state, \* CursorDrawState.cell_state
    pending,    \* the systems that have yet to run in the current frame
    caller,     \* the system that ran last ("none": a direct call)
    nframes,    \* number of frames begun so far
    last,       \* the last call made on the Universe, and what it returned
    ref,        \* the reference plane driven by the same calls
    nedits,     \* number of set_cell_state calls so far
    nticks,     \* number of Universe::tick calls so far
    lateEdit,   \* a set_cell_state call was made after a tick
    arg,        \* a coordinate pair handed to the coordinate functions
    out,        \* the last call of a coordinate function, and its result
    chunk,      \* one Chunk, ticked on its own
    probe,      \* what the calls on that Chunk did so far
    snapshot,   \* chunk_data of Universe::tick: the frozen last_gen grids
    step        \* the position of Universe::tick when it runs loop by loop

vars == <<chunks, paused, cell_state, pending, caller, nframes, last, ref, nedits, nticks, lateEdit,
          arg, out, chunk, probe, snapshot, step>>

app == <<paused, cell_state, pending, caller, nframes>>

\* The Universe and the application around it
univ == <<chunks, paused, cell_state, pending, caller, nframes, last, ref, nedits, nticks, lateEdit>>

\* The coordinate functions called on their own
coord == <<arg, out>>

\* One Chunk ticked on its own
single == <<chunk, probe>>

\* Universe::tick run loop by loop
phased == <<snapshot, step>>

MaxEdits == 4
MaxTicks == 2
MaxFrames == 2

\* World coordinates offered to set_cell_state and get_cell_state: cells on
\* the corner shared by chunks (0,0), (1,0), (0,1) and (1,1) (a row of three
\* across the seam between (0,0) and (1,0), and the two cells above its
\* right end), and the negative cell (-1,-1).
EditCells ==
    {<<x, N - 1>> : x \in N - 2 .. N} \cup {<<x, N>> : x \in N - 1 .. N}
        \cup {<<-1, -1>>}

\* Universe::new, GlobalState::default, CursorDrawState::default
AppInit ==
    /\ chunks = <<>>
    /\ paused = TRUE
    /\ cell_state = FALSE
    /\ pending = {}
    /\ caller = "none"
    /\ nframes = 0
    /\ last = [op |-> "new", ret |-> FALSE]
    /\ ref = {}
    /\ nedits = 0
    /\ nticks = 0
    /\ lateEdit = FALSE

\* No coordinate function has been called
NoCall == [op |-> "none", of |-> <<0, 0>>, val |-> <<0, 0>>]

\* No Chunk is ticked on its own
NoProbe == [phase |-> "none", ticks |-> 0, first |-> {}, queried |-> {}, reads |-> {}]

\* Universe::tick is not running
NoStep == [phase |-> "idle", todo |-> {}, pre |-> <<>>, rebuilt |-> {}]

CoordIdle == arg = <<0, 0>> /\ out = NoCall

SingleIdle == chunk = Chunk_new(<<0, 0>>) /\ probe = NoProbe

PhasedIdle == snapshot = <<>> /\ step = NoStep

Init ==
    /\ AppInit
    /\ CoordIdle
    /\ SingleIdle
    /\ PhasedIdle

(***************************************************************************)
(* The Universe's operations, called in any order                          *)
(***************************************************************************)

SetCell(w, a) ==
    /\ nedits < MaxEdits
    /\ chunks' = set_cell_state(chunks, w, a)
    /\ last' = [op |-> "set_cell", ret |-> FALSE]
    /\ ref' = IF a THEN ref \cup {w} ELSE ref \ {w}
    /\ nedits' = nedits + 1
    /\ lateEdit' = (lateEdit \/ nticks > 0)
    /\ UNCHANGED <<nticks, app>>
    /\ UNCHANGED <<coord, single, phased>>

GetCell(w) ==
    /\ chunks' = get_cell_state(chunks, w).chunks
    /\ last' = [op |-> "get_cell", ret |-> get_cell_state(chunks, w).ret]
    /\ UNCHANGED <<ref, nedits, nticks, lateEdit, app>>
    /\ UNCHANGED <<coord, single, phased>>

Tick ==
    /\ nticks < MaxTicks
    /\ chunks' = Universe_tick(chunks)
    /\ last' = [op |-> "tick", ret |-> FALSE]
    /\ ref' = RefStep(ref)
    /\ nticks' = nticks + 1
    /\ UNCHANGED <<nedits, lateEdit, app>>
    /\ UNCHANGED <<coord, single, phased>>

Next ==
    \/ \E w \in EditCells, a \in BOOLEAN : SetCell(w, a)
    \/ \E w \in EditCells : GetCell(w)
    \/ Tick

Spec == Init /\ [][Next]_vars

(***************************************************************************)
(* The application: the systems main registers, run once per frame in an   *)
(* order the scheduler chooses (they all borrow the Universe mutably, so   *)
(* no two overlap).  Each input resource is read by one system only, so    *)
(* the system draws it when it runs.                                       *)
(***************************************************************************)

\* cursor_pos.0 = None
NoCursor == <<>>

\* Cells the cursor is over when handle_click runs: the two cells either
\* side of the seam between chunks (0,0) and (1,0)
CursorCells == {<<N - 1, N - 1>>, <<N, N - 1>>}

\* A frame begins: the three per-frame systems of lines 60-62 are due, and
\* the FixedTimestep set of lines 63-67 is due as well when a step of the
\* 1 Hz timer has elapsed.
BeginFrame(timer_step) ==
    /\ pending = {}
    /\ nframes < MaxFrames
    /\ nframes' = nframes + 1
    /\ pending' = {"handle_click", "handle_play_pause", "tick_universe"}
                    \cup (IF timer_step THEN {"tick_universe_fixed"} ELSE {})
    /\ caller' = "frame"
    /\ last' = [op |-> "none", ret |-> FALSE]
    /\ UNCHANGED <<chunks, paused, cell_state, ref, nedits, nticks, lateEdit>>
    /\ UNCHANGED <<coord, single, phased>>

\* tick_universe, run as the system `sys`
tick_universe(sys) ==
    /\ sys \in pending
    /\ pending' = pending \ {sys}
    /\ caller' = sys
    /\ IF ~paused
       THEN /\ nticks < MaxTicks
            /\ chunks' = Universe_tick(chunks)
            /\ last' = [op |-> "tick", ret |-> FALSE]
            /\ ref' = RefStep(ref)
            /\ nticks' = nticks + 1
       ELSE /\ chunks' = [p \in DOMAIN chunks |-> recalculate_mesh(chunks[p])]
            /\ last' = [op |-> "none", ret |-> FALSE]
            /\ UNCHANGED <<ref, nticks>>
    /\ UNCHANGED <<paused, cell_state, nframes, nedits, lateEdit>>
    /\ UNCHANGED <<coord, single, phased>>

TickUniverse == tick_universe("tick_universe")

TickUniverseFixed == tick_universe("tick_universe_fixed")

\* handle_click without the early return on !state.paused
HandleClick_unpaused(cursor, just_pressed, pressed) ==
    LET acts == cursor # NoCursor
        samples == acts /\ just_pressed
        writes == acts /\ pressed
        sampled == get_cell_state(chunks, cursor)
        draw == IF samples THEN ~sampled.ret ELSE cell_state
        read == IF samples THEN sampled.chunks ELSE chunks
    IN  /\ "handle_click" \in pending
        /\ pending' = pending \ {"handle_click"}
        /\ caller' = "handle_click"
        /\ writes => nedits < MaxEdits
        /\ cell_state' = draw
        /\ chunks' = IF writes THEN set_cell_state(read, cursor, draw) ELSE read
        /\ last' = IF writes THEN [op |-> "set_cell", ret |-> FALSE]
                   ELSE IF samples THEN [op |-> "get_cell", ret |-> sampled.ret]
                   ELSE [op |-> "none", ret |-> FALSE]
        /\ ref' = IF ~writes THEN ref
                  ELSE IF draw THEN ref \cup {cursor} ELSE ref \ {cursor}
        /\ nedits' = IF writes THEN nedits + 1 ELSE nedits
        /\ lateEdit' = IF writes THEN (lateEdit \/ nticks > 0) ELSE lateEdit
        /\ UNCHANGED <<paused, nframes, nticks>>
        /\ UNCHANGED <<coord, single, phased>>

HandleClick(cursor, just_pressed, pressed) ==
    LET acts == paused /\ cursor # NoCursor
        samples == acts /\ just_pressed
        writes == acts /\ pressed
        sampled == get_cell_state(chunks, cursor)
        draw == IF samples THEN ~sampled.ret ELSE cell_state
        read == IF samples THEN sampled.chunks ELSE chunks
    IN  /\ "handle_click" \in pending
        /\ pending' = pending \ {"handle_click"}
        /\ caller' = "handle_click"
        /\ writes => nedits < MaxEdits
        /\ cell_state' = draw
        /\ chunks' = IF writes THEN set_cell_state(read, cursor, draw) ELSE read
        /\ last' = IF writes THEN [op |-> "set_cell", ret |-> FALSE]
                   ELSE IF samples THEN [op |-> "get_cell", ret |-> sampled.ret]
                   ELSE [op |-> "none", ret |-> FALSE]
        /\ ref' = IF ~writes THEN ref
                  ELSE IF draw THEN ref \cup {cursor} ELSE ref \ {cursor}
        /\ nedits' = IF writes THEN nedits + 1 ELSE nedits
        /\ lateEdit' = IF writes THEN (lateEdit \/ nticks > 0) ELSE lateEdit
        /\ UNCHANGED <<paused, nframes, nticks>>
        /\ UNCHANGED <<coord, single, phased>>

HandlePlayPause(space, right) ==
    /\ "handle_play_pause" \in pending
    /\ pending' = pending \ {"handle_play_pause"}
    /\ caller' = "handle_play_pause"
    /\ paused' = IF space THEN ~paused ELSE paused
    /\ IF right
       THEN /\ nticks < MaxTicks
            /\ chunks' = Universe_tick(chunks)
            /\ last' = [op |-> "tick", ret |-> FALSE]
            /\ ref' = RefStep(ref)
            /\ nticks' = nticks + 1
       ELSE /\ last' = [op |-> "none", ret |-> FALSE]
            /\ UNCHANGED <<chunks, ref, nticks>>
    /\ UNCHANGED <<cell_state, nframes, nedits, lateEdit>>
    /\ UNCHANGED <<coord, single, phased>>

AppNext ==
    \/ \E timer_step \in BOOLEAN : BeginFrame(timer_step)
    \/ \E cursor \in CursorCells \cup {NoCursor}, just_pressed \in BOOLEAN, pressed \in BOOLEAN :
            HandleClick(cursor, just_pressed, pressed)
    \/ \E space \in BOOLEAN, right \in BOOLEAN : HandlePlayPause(space, right)
    \/ TickUniverse
    \/ TickUniverseFixed

AppSpec == Init /\ [][AppNext]_vars

(***************************************************************************)
(* The coordinate functions, called on their own on a pair drawn when the  *)
(* run starts.                                                             *)
(***************************************************************************)

\* The largest magnitude up to which every whole number is an f32
F32_INT_MAX == 16777216

\* The literal the source writes for the edge of a chunk
ChunkEdge == 50

MapSpan == 2

\* World coordinates handed to to_chunk_pos and to the local-index
\* expression: the whole numbers around the origin, and the ends of the range
\* in which an f32 holds every whole number
WorldCoords ==
    (-(MapSpan * N) - 1 .. MapSpan * N + 1)
        \cup {F32_INT_MAX - 1, F32_INT_MAX, 1 - F32_INT_MAX, -F32_INT_MAX}

\* Chunk coordinates handed to from_chunk_pos: the chunks around the origin,
\* the last chunks whose origin is an i32, the first beyond them, and the
\* ends of i32
ChunkCoords ==
    (-(MapSpan * N) - 1 .. MapSpan * N + 1)
        \cup {I32_MAX \div N, (I32_MAX \div N) + 1,
              -(I32_MAX \div N), -(I32_MAX \div N) - 1, I32_MAX, I32_MIN}

MapInit ==
    /\ AppInit
    /\ arg \in (WorldCoords \cup ChunkCoords) \X (WorldCoords \cup ChunkCoords)
    /\ out = NoCall
    /\ SingleIdle
    /\ PhasedIdle

CallToChunkPos ==
    /\ arg \in WorldCoords \X WorldCoords
    /\ out' = [op |-> "to_chunk_pos", of |-> arg, val |-> to_chunk_pos(arg)]
    /\ UNCHANGED <<arg, univ, single, phased>>

\* local_x and local_y of set_cell_state and get_cell_state
CallLocalPos ==
    /\ arg \in WorldCoords \X WorldCoords
    /\ out' = [op |-> "local_pos", of |-> arg, val |-> local_pos(arg)]
    /\ UNCHANGED <<arg, univ, single, phased>>

CallFromChunkPos ==
    /\ arg \in ChunkCoords \X ChunkCoords
    /\ out' = [op |-> "from_chunk_pos", of |-> arg, val |-> from_chunk_pos(arg)]
    /\ UNCHANGED <<arg, univ, single, phased>>

MapNext ==
    \/ CallToChunkPos
    \/ CallLocalPos
    \/ CallFromChunkPos

MapSpec == MapInit /\ [][MapNext]_vars

(***************************************************************************)
(* One Chunk ticked on its own: Chunk::prepare_tick and Chunk::tick called *)
(* in turn on a chunk whose grid, and whose eight neighbours' frozen       *)
(* grids, were written before the run starts.                              *)
(***************************************************************************)

\* Positions of the chunk under test
ChunkPositions == {<<0, 0>>, <<-1, -1>>}

\* A pattern is any set of cells of a 3 x 3 block, given in the chunk's
\* local coordinates extended by one cell on every side (-1 .. N).  The
\* blocks are centred on the four corner cells of the chunk and on a cell
\* in its middle.
BlockCentres ==
    {<<0, 0>>, <<0, N - 1>>, <<N - 1, 0>>, <<N - 1, N - 1>>, <<N \div 2, N \div 2>>}

Block(c) == {<<c[1] + dx, c[2] + dy>> : dx \in -1 .. 1, dy \in -1 .. 1}

\* The chunk, relative to the one under test, that an extended local
\* position lies in
OffsetOf(q) ==
    <<IF q[1] < 0 THEN -1 ELSE IF q[1] >= N THEN 1 ELSE 0,
      IF q[2] < 0 THEN -1 ELSE IF q[2] >= N THEN 1 ELSE 0>>

\* The frozen grids of the neighbours that hold a cell of pattern S; a
\* neighbour without any is absent from chunk_data
FrozenAround(pos, S) ==
    LET offs == {OffsetOf(q) : q \in S} \ {<<0, 0>>}
    IN  [p \in {<<pos[1] + o[1], pos[2] + o[2]>> : o \in offs} |->
            {<<q[1] - (p[1] - pos[1]) * N, q[2] - (p[2] - pos[2]) * N>> :
                q \in {r \in S : OffsetOf(r) = <<p[1] - pos[1], p[2] - pos[2]>>}}]

\* A fresh chunk whose current_gen was written cell by cell, as
\* set_cell_state writes it
ChunkInit ==
    /\ AppInit
    /\ CoordIdle
    /\ step = NoStep
    /\ \E pos \in ChunkPositions, c \in BlockCentres :
          \E S \in SUBSET Block(c) :
             /\ chunk = [Chunk_new(pos) EXCEPT !.current_gen = S \cap Cells]
             /\ snapshot = FrozenAround(pos, S)
             /\ probe = [NoProbe EXCEPT !.phase = "new", !.first = S \cap Cells]

ChunkPrepare ==
    /\ probe.phase \in {"new", "ticked"}
    /\ probe.ticks < MaxTicks
    /\ chunk' = prepare_tick(chunk)
    /\ probe' = [probe EXCEPT !.phase = "prepared"]
    /\ UNCHANGED <<univ, coord, phased>>

\* Chunk::tick on the neighbour array Universe::tick builds from chunk_data;
\* probe records the positions asked for and the array reads made
ChunkTick ==
    /\ probe.phase = "prepared"
    /\ chunk' = Chunk_tick(chunk, neighbor_grids(snapshot, chunk.pos))
    /\ probe' = [probe EXCEPT
                    !.phase = "ticked",
                    !.ticks = @ + 1,
                    !.queried = {neighbor_queries(c)[i] : c \in Cells, i \in 0 .. 7},
                    !.reads = {[src |-> 8, at |-> c] : c \in Cells}
                                \cup {neighbor_index(neighbor_queries(c)[i]) :
                                        c \in Cells, i \in 0 .. 7}]
    /\ UNCHANGED <<univ, coord, phased>>

ChunkNext ==
    \/ ChunkPrepare
    \/ ChunkTick

ChunkSpec == ChunkInit /\ [][ChunkNext]_vars

(***************************************************************************)
(* Universe::tick run loop by loop: each of its for loops visits the       *)
(* chunks of the HashMap in an order the map chooses, one chunk per step.  *)
(* set_cell_state is called between ticks only.                            *)
(***************************************************************************)

\* Cells written before and between the ticks: a row of three on the last
\* row of chunks (0,0) and (1,0), across the seam between them
StepCells == {<<x, N - 1>> : x \in N - 2 .. N}

\* The map grows without limit; a tick is followed loop by loop when it is
\* entered with at most MaxChunks chunks (it may create more)
MaxChunks == 2

StepEdit(w, a) ==
    /\ step.phase = "idle"
    /\ SetCell(w, a)

\* Universe::tick is entered: the first loop has every chunk to visit
TickBegin ==
    /\ step.phase = "idle"
    /\ nticks < MaxTicks
    /\ Cardinality(DOMAIN chunks) <= MaxChunks
    /\ step' = [phase |-> "prepare", todo |-> DOMAIN chunks, pre |-> chunks, rebuilt |-> {}]
    /\ UNCHANGED <<univ, coord, single, snapshot>>

\* One visit of the loop at lines 204-206
StepPrepare(p) ==
    /\ step.phase = "prepare"
    /\ p \in step.todo
    /\ chunks' = [chunks EXCEPT ![p] = prepare_tick(chunks[p])]
    /\ step' = [step EXCEPT !.todo = @ \ {p}]
    /\ UNCHANGED <<app, last, ref, nedits, nticks, lateEdit, coord, single, snapshot>>

\* Lines 209-225, once the first loop has ended
StepSpawn ==
    /\ step.phase = "prepare"
    /\ step.todo = {}
    /\ chunks' = spawn_needed(chunks, needed_chunks(chunks))
    /\ step' = [step EXCEPT !.phase = "freeze"]
    /\ UNCHANGED <<app, last, ref, nedits, nticks, lateEdit, coord, single, snapshot>>

\* Lines 228-232: chunk_data is collected
StepFreeze ==
    /\ step.phase = "freeze"
    /\ snapshot' = [p \in DOMAIN chunks |-> chunks[p].last_gen]
    /\ step' = [step EXCEPT !.phase = "tick", !.todo = DOMAIN chunks]
    /\ UNCHANGED <<univ, coord, single>>

\* One visit of the loop at lines 234-245, with the neighbours read in
\* place: a neighbour visited earlier shows its new generation
StepTickChunk_in_place(p) ==
    LET live == [q \in DOMAIN chunks |->
                    IF q \in step.todo THEN chunks[q].last_gen ELSE chunks[q].current_gen]
    IN  /\ step.phase = "tick"
        /\ p \in step.todo
        /\ chunks' = [chunks EXCEPT ![p] = Chunk_tick(chunks[p], neighbor_grids(live, p))]
        /\ step' = [step EXCEPT !.todo = @ \ {p}]
        /\ UNCHANGED <<app, last, ref, nedits, nticks, lateEdit, coord, single, snapshot>>

\* One visit of the loop at lines 234-245
StepTickChunk(p) ==
    /\ step.phase = "tick"
    /\ p \in step.todo
    /\ chunks' = [chunks EXCEPT ![p] = Chunk_tick(chunks[p], neighbor_grids(snapshot, p))]
    /\ step' = [step EXCEPT !.todo = @ \ {p}]
    /\ UNCHANGED <<app, last, ref, nedits, nticks, lateEdit, coord, single, snapshot>>

\* Lines 247-251, once the loop of ticks has ended, and the return.  Every
\* visit of this loop writes the mesh of its own chunk only; rebuilt
\* records the chunks recalculate_mesh was called on.
StepRefresh ==
    /\ step.phase = "tick"
    /\ step.todo = {}
    /\ chunks' = [p \in DOMAIN chunks |->
                    IF changed(chunks[p]) THEN recalculate_mesh(chunks[p]) ELSE chunks[p]]
    /\ step' = [step EXCEPT !.phase = "idle",
                            !.rebuilt = {p \in DOMAIN chunks : changed(chunks[p])}]
    /\ last' = [op |-> "tick", ret |-> FALSE]
    /\ ref' = RefStep(ref)
    /\ nticks' = nticks + 1
    /\ UNCHANGED <<app, nedits, lateEdit, coord, single, snapshot>>

StepNext ==
    \/ \E w \in StepCells, a \in BOOLEAN : StepEdit(w, a)
    \/ TickBegin
    \/ \E p \in DOMAIN chunks : StepPrepare(p)
    \/ StepSpawn
    \/ StepFreeze
    \/ \E p \in DOMAIN chunks : StepTickChunk(p)
    \/ StepRefresh

StepSpec == Init /\ [][StepNext]_vars

(***************************************************************************)
(* Vocabulary of the properties.  These are stated on world coordinates    *)
(* directly, without the coordinate mapper.                                *)
(***************************************************************************)

Keys(ch) == DOMAIN ch

\* Chunk p covers world cell w
Covers(p, w) ==
    /\ p[1] * N <= w[1] /\ w[1] < p[1] * N + N
    /\ p[2] * N <= w[2] /\ w[2] < p[2] * N + N

ChunkCells(p) == {<<p[1] * N + i, p[2] * N + j>> : i \in 0 .. N - 1, j \in 0 .. N - 1}

\* The live world cells of a chunk map
LiveWorld(ch) ==
    UNION {{<<p[1] * N + c[1], p[2] * N + c[2]>> : c \in ch[p].current_gen} : p \in DOMAIN ch}

\* The world cells a property looks at: every cell a call can name, every
\* live reference cell and every cell of the chunks ps
Probe(ps) == EditCells \cup ref \cup UNION {ChunkCells(p) : p \in ps}

\* The chunks a step created or changed in any field
Touched(ch1, ch2) == {p \in DOMAIN ch2 : p \notin DOMAIN ch1 \/ ch2[p] # ch1[p]}

Adjacent(p, q) ==
    /\ p # q
    /\ p[1] - q[1] \in -1 .. 1
    /\ p[2] - q[2] \in -1 .. 1

CountIsCurrent(c) == c.current_gen_alive = Cardinality(c.current_gen)

StillLife(live) == live # {} /\ RefStep(live) = live

\* C1: after k >= 1 ticks of a pattern written with set_cell into an empty
\* Universe, get_cell agrees at every world coordinate with k generations of
\* B3/S23 on one unsplit grid.
C1_SeamCorrect ==
    (nticks >= 1 /\ ~lateEdit) =>
        \A w \in Probe(Keys(chunks)) : get_cell_state(chunks, w).ret = (w \in ref)

\* C2: when the only chunk of the map has a live cell on its last row and
\* the chunk beyond that row does not exist, one tick creates that chunk, and
\* it is all-dead when the pattern gives birth to nothing inside it.
C2_FrontierGrowth ==
    [][(last'.op = "tick" /\ Cardinality(Keys(chunks)) = 1) =>
          \A p \in Keys(chunks) :
             (\E x \in 0 .. N - 1 : <<x, N - 1>> \in chunks[p].current_gen) =>
                LET north == <<p[1], p[2] + 1>>
                IN  /\ north \in Keys(chunks')
                    /\ (RefStep(LiveWorld(chunks)) \cap ChunkCells(north) = {}) =>
                          chunks'[north].current_gen = {}]_vars

\* C3: every chunk a tick creates is adjacent to a chunk whose
\* previous_generation (the pre-tick generation) has a live cell; a chunk
\* with no live cell creates none of its neighbours.
C3_ActivityDrivenSparsity ==
    [][last'.op = "tick" =>
          \A p \in Keys(chunks') \ Keys(chunks) :
             \E q \in Keys(chunks') : Adjacent(p, q) /\ chunks'[q].last_gen # {}]_vars

\* C4: immediately after every tick, current_gen_alive of every chunk (those
\* created by the tick included) is the number of true cells of current_gen.
C4_CountAfterTick ==
    last.op = "tick" => \A p \in Keys(chunks) : CountIsCurrent(chunks[p])

\* A tick has just run, some chunk has live cells, and chunk (1,-1), which
\* no set_cell can name, exists: it was created by frontier growth.
C4_Witness ==
    /\ last.op = "tick"
    /\ <<1, -1>> \in Keys(chunks)
    /\ \E p \in Keys(chunks) : chunks[p].current_gen_alive > 1

\* C5: between operations, current_gen_alive of every chunk is the number of
\* true cells of its current_gen (set_cell maintains the counter too).
C5_CountAlways ==
    \A p \in Keys(chunks) : CountIsCurrent(chunks[p])

\* C6: after set_cell(w, a), get_cell(w) returns a, the chunk covering w
\* exists, get_cell is unchanged at every other world coordinate (no chunk
\* but the one covering w is touched, and get_cell is compared at every
\* other cell of that chunk, at every cell a call can name and at every live
\* reference cell), and no chunk's previous_generation is modified.
C6_SetCellRoundTrip ==
    [][\A w \in EditCells, a \in BOOLEAN :
          (last'.op = "set_cell" /\ SetCell(w, a)) =>
             /\ get_cell_state(chunks', w).ret = a
             /\ \E p \in Keys(chunks') : Covers(p, w)
             /\ \A p \in Touched(chunks, chunks') : Covers(p, w)
             /\ \A v \in Probe(Touched(chunks, chunks')) \ {w} :
                   get_cell_state(chunks', v).ret = get_cell_state(chunks, v).ret
             /\ \A p \in Keys(chunks) : chunks'[p].last_gen = chunks[p].last_gen
             /\ \A p \in Keys(chunks') \ Keys(chunks) : chunks'[p].last_gen = {}]_vars

\* The negative cell (-1,-1) has been written alive, by the call just made
\* or an earlier one, in a Universe that has ticked and holds a non-empty
\* previous_generation.
C6_Witness ==
    /\ last.op = "set_cell"
    /\ <<-1, -1>> \in Keys(chunks)
    /\ <<N - 1, N - 1>> \in chunks[<<-1, -1>>].current_gen
    /\ \E p \in Keys(chunks) : chunks[p].last_gen # {}

\* C7: get_cell returns false when no chunk covers the coordinate, and never
\* changes the set of chunk keys, a grid or a counter.
C7_GetCellPure ==
    [][\A w \in EditCells :
          (last'.op = "get_cell" /\ GetCell(w)) =>
             /\ chunks' = chunks
             /\ (~\E p \in Keys(chunks) : Covers(p, w)) => ~last'.ret]_vars

\* get_cell has just returned false in a Universe whose only chunk is (0,0)
\* with both of its nameable cells alive: the coordinate read lay in a chunk
\* that does not exist.
C7_Witness ==
    /\ last.op = "get_cell"
    /\ ~last.ret
    /\ Keys(chunks) = {<<0, 0>>}
    /\ chunks[<<0, 0>>].current_gen = {<<N - 2, N - 1>>, <<N - 1, N - 1>>}

\* C8 as stated: a tick of a Universe whose live cells form a still life
\* leaves changed() false for every chunk and the set of chunk keys as it
\* was.
C8_StillLifeNoNewChunk ==
    [][(last'.op = "tick" /\ StillLife(LiveWorld(chunks))) =>
          /\ \A p \in Keys(chunks') : ~changed(chunks'[p])
          /\ Keys(chunks') = Keys(chunks)]_vars

\* C8 amended: a tick of a Universe whose live cells form a still life
\* leaves changed() false for every chunk and every cell as it was; it
\* removes no chunk, and every chunk it adds is all-dead and adjacent to a
\* chunk that existed before the tick.
C8_StillLifeStable ==
    [][(last'.op = "tick" /\ StillLife(LiveWorld(chunks))) =>
          /\ \A p \in Keys(chunks') : ~changed(chunks'[p])
          /\ LiveWorld(chunks') = LiveWorld(chunks)
          /\ Keys(chunks) \subseteq Keys(chunks')
          /\ \A p \in Keys(chunks') \ Keys(chunks) :
                /\ chunks'[p].current_gen = {}
                /\ \E q \in Keys(chunks) : Adjacent(p, q)]_vars

\* The 2 x 2 block on the corner of chunks (0,0), (1,0), (0,1), (1,1), one
\* cell in each, has been ticked twice; the second tick created chunk (2,2).
C8_Witness ==
    /\ last.op = "tick"
    /\ nticks = 2
    /\ LiveWorld(chunks) = {<<N - 1, N - 1>>, <<N, N - 1>>, <<N - 1, N>>, <<N, N>>}
    /\ ref = LiveWorld(chunks)
    /\ <<2, 2>> \in Keys(chunks)

\* C9: the map starts empty; no call removes a chunk, and none replaces an
\* existing chunk by a fresh one: a tick moves the chunk's current_gen and
\* counter into its last_gen, set_cell changes at most one cell of
\* current_gen and nothing else, get_cell changes nothing.
C9_ChunkMapMonotonic ==
    /\ Keys(chunks) = {}
    /\ [][/\ Keys(chunks) \subseteq Keys(chunks')
          /\ \A p \in Keys(chunks) :
                /\ chunks'[p].pos = chunks[p].pos
                /\ last'.op = "tick" =>
                      /\ chunks'[p].last_gen = chunks[p].current_gen
                      /\ chunks'[p].last_gen_alive = chunks[p].current_gen_alive
                /\ last'.op = "set_cell" =>
                      /\ chunks'[p].last_gen = chunks[p].last_gen
                      /\ chunks'[p].last_gen_alive = chunks[p].last_gen_alive
                      /\ chunks'[p].current_gen_alive = chunks[p].current_gen_alive
                      /\ Cardinality((chunks'[p].current_gen \ chunks[p].current_gen)
                            \cup (chunks[p].current_gen \ chunks'[p].current_gen)) <= 1
                /\ last'.op = "get_cell" => chunks'[p] = chunks[p]]_vars

\* A tick has just grown the frontier around two adjacent chunks that both
\* held live cells before it: each was a needed neighbour of the other and
\* already existed.
C9_Witness ==
    /\ last.op = "tick"
    /\ <<1, -1>> \in Keys(chunks)
    /\ chunks[<<0, 0>>].last_gen # {}
    /\ chunks[<<1, 0>>].last_gen # {}

\* C10: a tick made while running is made by the 1 Hz FixedTimestep system,
\* and a tick made while paused is made by the step request.
C10_TickOnSchedule ==
    last.op = "tick" =>
        IF paused THEN caller = "handle_play_pause" ELSE caller = "tick_universe_fixed"

\* C11: in every interleaving of the systems, set_cell is called only by
\* handle_click and only in a state where paused is true (it stays true over
\* the call); a system runs to its end before the next one starts, so the
\* call never falls between the phases of a tick.
C11_EditsOnlyWhilePaused ==
    [][last'.op = "set_cell" =>
          /\ paused /\ paused'
          /\ caller' = "handle_click"
          /\ "handle_click" \in pending /\ "handle_click" \notin pending'
          /\ nticks' = nticks]_vars

\* handle_click has just written a cell in a frame in which the step request
\* of handle_play_pause had already ticked the Universe.
C11_Witness ==
    /\ last.op = "set_cell"
    /\ caller = "handle_click"
    /\ nticks > 0
    /\ "handle_play_pause" \notin pending
    /\ "tick_universe" \in pending
    /\ nframes = 1

\* The origin of chunk c is an i32: the magnitude of c * N is at most
\* i32::MAX in both coordinates
OriginIsI32(c) ==
    \A i \in 1 .. 2 : -(I32_MAX \div N) <= c[i] /\ c[i] <= I32_MAX \div N

\* C12: to_chunk_pos(from_chunk_pos(c)) = c for every chunk coordinate c
\* whose origin from_chunk_pos can represent, negative ones included.
C12_ChunkPosRoundTrip ==
    (out.op = "from_chunk_pos" /\ OriginIsI32(out.of)) =>
        to_chunk_pos(out.val) = out.of

\* from_chunk_pos has been called on a negative chunk and on the last chunk
\* whose origin is an i32.
C12_Witness ==
    /\ out.op = "from_chunk_pos"
    /\ out.of = <<-1, I32_MAX \div N>>
    /\ out.val = <<-N, (I32_MAX \div N) * N>>

\* C13: for every whole world coordinate x (of either sign) the chunk
\* coordinate cx and the local index l satisfy 0 <= l < N and
\* cx * N + l = x, that is cx = floor(x / N) and l = x mod N; (-1,-1) lies in
\* chunk (-1,-1) at local (N-1,N-1).  The same is stated of the two
\* expressions at the source's literal edge 50, where -1 has local index 49.
C13_FloorMapping ==
    out.op = "local_pos" =>
        /\ \A i \in 1 .. 2 :
              LET x == out.of[i]
                  cx == to_chunk_pos(out.of)[i]
                  l == out.val[i]
                  cx50 == floor(x, ChunkEdge)
                  l50 == rem(ChunkEdge + rem(x, ChunkEdge), ChunkEdge)
              IN  /\ 0 <= l /\ l < N
                  /\ cx * N + l = x
                  /\ 0 <= l50 /\ l50 < ChunkEdge
                  /\ cx50 * ChunkEdge + l50 = x
                  /\ x = -1 => (cx50 = -1 /\ l50 = ChunkEdge - 1)
        /\ out.of = <<-1, -1>> =>
              (to_chunk_pos(out.of) = <<-1, -1>> /\ out.val = <<N - 1, N - 1>>)

\* The local index has been computed for (-1, -N - 1): the last cell of
\* chunk -1 in x, and the last cell of chunk -2 in y.
C13_Witness ==
    /\ out.op = "local_pos"
    /\ out.of = <<-1, -N - 1>>
    /\ out.val = <<N - 1, N - 1>>
    /\ to_chunk_pos(out.of) = <<-1, -2>>

\* The state before the tick of the world cell that lies at position q of
\* the chunk under test, q in the chunk's local coordinates extended beyond
\* its edges: the cell is looked up by its world coordinates in the chunk
\* that covers it, and is dead when that chunk is absent.
WorldBefore(q) ==
    LET w == <<chunk.pos[1] * N + q[1], chunk.pos[2] * N + q[2]>>
        p == CHOOSE p \in {<<chunk.pos[1] + i, chunk.pos[2] + j>> : i \in -1 .. 1, j \in -1 .. 1} :
                Covers(p, w)
        l == <<w[1] - p[1] * N, w[2] - p[2] * N>>
    IN  IF p = chunk.pos THEN l \in chunk.last_gen
        ELSE p \in DOMAIN snapshot /\ l \in snapshot[p]

\* The frozen grid of the chunk at offset (dx, dy) from the one under test
FrozenAt(dx, dy) ==
    LET p == <<chunk.pos[1] + dx, chunk.pos[2] + dy>>
    IN  IF p \in DOMAIN snapshot THEN snapshot[p] ELSE {}

\* The array Universe::tick passes to the chunk under test
PassedArray == neighbor_grids(snapshot, chunk.pos)

HRow(c) == {<<c[1] - 1, c[2]>>, c, <<c[1] + 1, c[2]>>}

VCol(c) == {<<c[1], c[2] - 1>>, c, <<c[1], c[2] + 1>>}

Mid == <<N \div 2, N \div 2>>

\* C14: after Chunk::tick every cell of current_gen is live iff it was live
\* in last_gen with exactly 2 or 3 live neighbours, or dead with exactly 3,
\* the neighbours being the eight surrounding world cells; a horizontal
\* blinker in the middle of a chunk with no live neighbour chunk is the
\* vertical column after one tick and the row again after two.
C14_RuleApplied ==
    probe.phase = "ticked" =>
        /\ \A c \in Cells :
              LET alive == c \in chunk.last_gen
                  n == Cardinality({d \in Around(c) : WorldBefore(d)})
              IN  (c \in chunk.current_gen) <=>
                     ((alive /\ n \in {2, 3}) \/ (~alive /\ n = 3))
        /\ (probe.first = HRow(Mid) /\ snapshot = <<>>) =>
              /\ probe.ticks = 1 => chunk.current_gen = VCol(Mid)
              /\ probe.ticks = 2 => chunk.current_gen = HRow(Mid)

\* The blinker written in the middle of the chunk has been ticked twice and
\* is the row again, the column being the previous generation.
C14_Witness ==
    /\ probe.phase = "ticked"
    /\ probe.ticks = 2
    /\ probe.first = HRow(Mid)
    /\ chunk.last_gen = VCol(Mid)
    /\ chunk.current_gen = HRow(Mid)

\* C15: for every cell of the chunk and each of the eight offsets, the
\* neighbour lookup on the array Universe::tick builds (W, NW, N, NE, E, SE,
\* S, SW) returns the state before the tick of the world cell at that
\* offset; the corners (-1,N), (N,N), (N,-1), (-1,-1) read cell (N-1,0) of
\* NW, (0,0) of NE, (0,N-1) of SE and (N-1,N-1) of SW, and the edge bands
\* read the boundary column or row of W, N, E, S at the mirrored index.
C15_BoundaryExact ==
    probe.phase \in {"prepared", "ticked"} =>
        /\ \A c \in Cells : \A d \in Around(c) :
              get_neighbor_status(chunk, PassedArray, d) = WorldBefore(d)
        /\ get_neighbor_status(chunk, PassedArray, <<-1, N>>) = (<<N - 1, 0>> \in FrozenAt(-1, 1))
        /\ get_neighbor_status(chunk, PassedArray, <<N, N>>) = (<<0, 0>> \in FrozenAt(1, 1))
        /\ get_neighbor_status(chunk, PassedArray, <<N, -1>>) = (<<0, N - 1>> \in FrozenAt(1, -1))
        /\ get_neighbor_status(chunk, PassedArray, <<-1, -1>>) = (<<N - 1, N - 1>> \in FrozenAt(-1, -1))
        /\ \A k \in 0 .. N - 1 :
              /\ get_neighbor_status(chunk, PassedArray, <<-1, k>>) = (<<N - 1, k>> \in FrozenAt(-1, 0))
              /\ get_neighbor_status(chunk, PassedArray, <<k, N>>) = (<<k, 0>> \in FrozenAt(0, 1))
              /\ get_neighbor_status(chunk, PassedArray, <<N, k>>) = (<<0, k>> \in FrozenAt(1, 0))
              /\ get_neighbor_status(chunk, PassedArray, <<k, -1>>) = (<<k, N - 1>> \in FrozenAt(0, -1))

\* Chunk (-1,-1) has been ticked with three live cells around its corner
\* cell (N-1,N-1), one in each of the chunks N, NE and E of it, and the
\* corner cell was born: the lookup read the corner cell of NE, which is
\* world cell (0,0).
C15_Witness ==
    /\ probe.phase = "ticked"
    /\ chunk.pos = <<-1, -1>>
    /\ chunk.last_gen = {}
    /\ DOMAIN snapshot = {<<-1, 0>>, <<0, 0>>, <<0, -1>>}
    /\ snapshot[<<0, 0>>] = {<<0, 0>>}
    /\ chunk.current_gen = {<<N - 1, N - 1>>}

\* C19: during Chunk::tick every position asked of the neighbour lookup has
\* both coordinates in -1 .. N, a position outside the grid is resolved by
\* one of the eight neighbour arms and a position inside by the last arm,
\* and every index used to read a snapshot or last_gen lies in 0 .. N-1.
C19_IndexSafe ==
    probe.phase = "ticked" =>
        /\ \A q \in probe.queried :
              /\ q[1] \in -1 .. N /\ q[2] \in -1 .. N
              /\ neighbor_index(q) \in probe.reads
              /\ neighbor_index(q).src = 8 <=> q \in Cells
        /\ \A r \in probe.reads :
              /\ r.src \in 0 .. 8
              /\ r.at[1] \in 0 .. N - 1 /\ r.at[2] \in 0 .. N - 1

\* A tick has asked for the four corner positions and for a position on
\* each edge band, and has read all eight snapshots and last_gen.
C19_Witness ==
    /\ probe.phase = "ticked"
    /\ {<<-1, N>>, <<N, N>>, <<N, -1>>, <<-1, -1>>, <<-1, 0>>, <<0, N>>, <<N, 0>>, <<0, -1>>}
            \subseteq probe.queried
    /\ {r.src : r \in probe.reads} = 0 .. 8
    /\ chunk.current_gen # {}

\* current_gen of the chunk at p when the tick was entered; all-dead when the
\* chunk did not exist yet
GridBefore(p) == IF p \in DOMAIN step.pre THEN step.pre[p].current_gen ELSE {}

\* Universe::tick has just returned
TickReturned == step.phase = "idle" /\ last.op = "tick"

\* C16: while the loop of ticks runs, prepare_tick has completed on every
\* chunk that existed when the tick was entered (its last_gen and counter
\* are the current_gen and counter from before, and a chunk not yet ticked
\* has an all-dead current_gen and a zero counter), and every neighbour grid
\* passed to a chunk's tick is that neighbour's current_gen from before the
\* tick, never a grid rewritten in this tick; before that loop no chunk has
\* been ticked; after the tick the last_gen of every chunk that existed
\* before is its current_gen from before.
C16_PhasesInOrder ==
    /\ step.phase = "prepare" =>
          \A p \in DOMAIN chunks :
             chunks[p] = IF p \in step.todo THEN step.pre[p] ELSE prepare_tick(step.pre[p])
    /\ step.phase = "tick" =>
          /\ \A p \in DOMAIN step.pre :
                /\ chunks[p].last_gen = step.pre[p].current_gen
                /\ chunks[p].last_gen_alive = step.pre[p].current_gen_alive
          /\ \A p \in step.todo :
                chunks[p].current_gen = {} /\ chunks[p].current_gen_alive = 0
          /\ \A p \in DOMAIN chunks : \A i \in 0 .. 7 :
                neighbor_grids(snapshot, p)[i] = GridBefore(neighbor_pos(p)[i])
    /\ TickReturned =>
          \A p \in DOMAIN step.pre : chunks[p].last_gen = step.pre[p].current_gen

\* The loop of ticks of a second tick is under way: chunk (0,0) entered the
\* tick with two different non-empty generations, some chunk has been
\* ticked to a non-empty grid and some chunk is still to be ticked.
C16_Witness ==
    /\ step.phase = "tick"
    /\ <<0, 0>> \in DOMAIN step.pre
    /\ step.pre[<<0, 0>>].last_gen # {}
    /\ step.pre[<<0, 0>>].current_gen # {}
    /\ step.pre[<<0, 0>>].current_gen # step.pre[<<0, 0>>].last_gen
    /\ step.todo # {}
    /\ \E p \in DOMAIN chunks \ step.todo : chunks[p].current_gen # {}

\* C17: whatever the order in which the loops visit the chunks, the map
\* after the tick (keys, grids, counters) is the one function of the map
\* before it, and every chunk already ticked holds the current_gen and
\* counter it ends the tick with.
C17_OrderIndependent ==
    /\ TickReturned => chunks = Universe_tick(step.pre)
    /\ step.phase = "tick" =>
          \A p \in DOMAIN chunks \ step.todo :
             /\ chunks[p].current_gen = Universe_tick(step.pre)[p].current_gen
             /\ chunks[p].current_gen_alive = Universe_tick(step.pre)[p].current_gen_alive

\* A second tick has returned that created chunks and left live cells in
\* both chunks (0,0) and (1,0), each of which read the other's frozen grid.
C17_Witness ==
    /\ TickReturned
    /\ nticks = 2
    /\ Cardinality(DOMAIN chunks) > Cardinality(DOMAIN step.pre)
    /\ chunks[<<0, 0>>].current_gen # {}
    /\ chunks[<<1, 0>>].current_gen # {}
    /\ snapshot[<<0, 0>>] # {}
    /\ snapshot[<<1, 0>>] # {}

\* C18: when the tick returns, recalculate_mesh was called in its last loop
\* on a chunk that existed before the tick iff the chunk's current_gen
\* differs from its last_gen; the mesh of a chunk it was not called on is
\* the mesh from before the tick, the mesh of a chunk it was called on is
\* built from current_gen.
C18_ChangedOnlyRefresh ==
    TickReturned =>
        \A p \in DOMAIN step.pre :
           /\ p \in step.rebuilt <=> chunks[p].current_gen # chunks[p].last_gen
           /\ p \notin step.rebuilt => chunks[p].mesh = step.pre[p].mesh
           /\ p \in step.rebuilt => chunks[p].mesh = chunks[p].current_gen

\* A tick has returned that rebuilt the mesh of one chunk that existed
\* before it and left alone another whose generation, not empty, did not
\* change.
C18_Witness ==
    /\ TickReturned
    /\ \E p \in DOMAIN step.pre, q \in DOMAIN step.pre :
          /\ p \in step.rebuilt
          /\ q \notin step.rebuilt
          /\ chunks[q].current_gen # {}

\* C20: in every interleaving of the systems, when Universe::tick has just
\* returned the mesh of every chunk was last built from a grid equal to the
\* chunk's current_gen: an edit made by set_cell is not left unrendered by a
\* tick that leaves the chunk with changed() false.
C20_MeshInStep ==
    last.op = "tick" =>
        \A p \in Keys(chunks) : chunks[p].mesh = chunks[p].current_gen

====
